---- MODULE Spec2Model ----
(***************************************************************************)
(* A model of calico/base.py: the scripted replay of one test case         *)
(* (TestCase.run, TestCase.run_script) against a child process, and the    *)
(* suite that runs the cases in order and scores them (Calico.add_case,    *)
(* Calico.run).                                                            *)
(*                                                                         *)
(* The child process is the environment: it may exit at any moment while   *)
(* it runs (ChildExit), with an exit code or by a signal, and it may or    *)
(* may not print what an EXPECT waits for.  Its output stream ends when it *)
(* exits.  Time is abstract: a wait that has a bound may end in TIMEOUT,   *)
(* a wait that has none never does.                                        *)
(***************************************************************************)
EXTENDS Integers, Sequences, FiniteSets, TLC

VARIABLES
    suite,          \* Calico (an OrderedDict): sequence of [key, val], val a TestCase
    points,         \* Calico.points: total points of the suite
    added,          \* history: every case passed to add_case, in call order
    pcs,            \* position of Calico.run: "idle", "loop", "in_case",
                    \* "after_loop", "returned"; "again" before a second call
    idx,            \* position of the iteration of Calico.run over self.items()
    report,         \* the OrderedDict that Calico.run builds: sequence of [key, val]
    earned_points,  \* local of Calico.run
    ran,            \* history of the calls of test.run that returned in this run:
                    \* the test, the report returned, the entry stored for it,
                    \* earned_points after it, and what the call did
    pct,            \* position of TestCase.run: "idle", "run", "loop",
                    \* "except_timeout", "ret", "returned"
    test,           \* the TestCase that TestCase.run runs on (self)
    i,              \* position of the loop of run_script in self.script
    errors,         \* local of run_script
    exit_status,    \* process.exitstatus as run_script returns it
    case_report,    \* the report TestCase.run returns
    proc,           \* the child process: "none", "running", "exited", "killed"
    child_status,   \* the status the child exited with: Some(code), None for a signal
    written,        \* history: what was written to the child, in order
    attempted,      \* history: [index, outcome] of every action the loop reached
    SUPPORTS_JAIL,  \* module global: whether fakechroot is on the host
    jailed,         \* argument of TestCase.run
    command,        \* local of TestCase.run: the command line that is spawned
    supplied,       \* history: the [type_, data, timeout] each Action of
                    \* test.script was constructed from, when test stands alone
    finished        \* history: [suite, report, ran] of a run of Calico.run that
                    \* returned before the run in progress

suite_vars == <<suite, points, added>>
run_vars == <<pcs, idx, report, earned_points, ran>>
case_vars == <<pct, test, i, errors, exit_status, case_report>>
proc_vars == <<proc, child_status, written, attempted>>
call_vars == <<jailed, command>>
hist_vars == <<SUPPORTS_JAIL, supplied, finished>>
vars == <<suite, points, added, pcs, idx, report, earned_points, ran,
          pct, test, i, errors, exit_status, case_report,
          proc, child_status, written, attempted,
          SUPPORTS_JAIL, jailed, command, supplied, finished>>

----------------------------------------------------------------------------
(* Bounds of the model. *)

MaxScriptLen == 2
MaxTimeout == 1
MaxExit == 1
MaxPoints == 2
MaxCases == 2
MaxAdds == 3

----------------------------------------------------------------------------
(* Python values.  An Optional[int] is None or Some(n). *)

None == << >>
Some(v) == <<v>>
Str(s) == [str |-> s]

\* pexpect.EOF, the class that stands for "match end-of-stream"
pexpect_EOF == [cls |-> "pexpect.EOF"]

ActionType_EXPECT == [cls |-> "ActionType", value |-> <<"e", "expect">>]
ActionType_SEND == [cls |-> "ActionType", value |-> <<"s", "send">>]

\* Action.__init__: an Action object is its three attributes.  Action defines
\* no __eq__, so an Action equals no ActionType member: the records differ.
Action(type_, data, timeout) ==
    [type_ |-> type_,
     data |-> IF data # Str("_EOF_") THEN data ELSE pexpect_EOF,
     timeout |-> timeout]

\* TestCase.__init__
TestCase(name, command_, timeout, returns, points_, blocker) ==
    [name |-> name, command |-> command_, script |-> << >>,
     timeout |-> timeout, returns |-> returns, points |-> points_,
     blocker |-> blocker]

\* TestCase.add_action
add_action(case, action) == [case EXCEPT !.script = Append(@, action)]

RECURSIVE add_actions(_, _)
add_actions(case, actions) ==
    IF actions = << >> THEN case
    ELSE add_actions(add_action(case, Head(actions)), Tail(actions))

----------------------------------------------------------------------------
(* The inputs. *)

OptTimeouts == {None} \cup {Some(t) : t \in 1..MaxTimeout}
OptExits == {None} \cup {Some(c) : c \in 0..MaxExit}
OptPoints == {None} \cup {Some(p) : p \in 1..MaxPoints}

\* The actions a loader builds: an EXPECT of a literal or of "_EOF_", with or
\* without a timeout of its own, and a SEND of a line.
ActionSpace ==
    {Action(ActionType_EXPECT, Str(d), t) : d \in {"a", "_EOF_"}, t \in OptTimeouts}
    \cup {Action(ActionType_SEND, Str("x"), None)}

\* What the loader passes to Action(): the type, the data as written by the
\* user and the timeout.
ActionArgs ==
    {[type_ |-> ActionType_EXPECT, data |-> d, timeout |-> t] :
        d \in {"a", "_EOF_"}, t \in OptTimeouts}
    \cup {[type_ |-> ActionType_SEND, data |-> "x", timeout |-> None]}

\* the script the loader builds from a sequence of such arguments
Script(args) ==
    [k \in 1..Len(args) |-> Action(args[k].type_, Str(args[k].data), args[k].timeout)]

RECURSIVE SeqsUpTo(_, _)
SeqsUpTo(S, n) ==
    IF n = 0 THEN {<< >>}
    ELSE LET shorter == SeqsUpTo(S, n - 1)
         IN  shorter \cup {Append(s, x) : s \in shorter, x \in S}

ScriptSpace == SeqsUpTo(ActionSpace, MaxScriptLen)
ScriptArgs == SeqsUpTo(ActionArgs, MaxScriptLen)

\* The cases TestCase.run is checked on, standing alone.
CaseSpace ==
    {add_actions(TestCase("t", "cmd", t, r, None, FALSE), s) :
        t \in OptTimeouts, r \in OptExits, s \in ScriptSpace}

----------------------------------------------------------------------------
(* pexpect, as run_script uses it. *)

\* process.expect(pattern, timeout=t): the bound of the wait.  None blocks
\* without a bound (only -1, which run_script never passes, means the
\* spawn's default).
ExpectTimeout(action) == action.timeout

\* process.close(force=True): a child still running is killed (SIGHUP, SIGINT,
\* SIGKILL), a child that has exited is reaped.
Closed(p) == IF p = "running" THEN "killed" ELSE p

\* process.exitstatus after the close: the child's exit code, None when a
\* signal ended it.
ExitStatus(p, status) == IF p = "running" THEN None ELSE status

\* process.sendline(s): s and os.linesep
sendline(w, data) == Append(w, data.str \o "\n")

\* str.startswith
startswith(s, prefix) ==
    Len(s) >= Len(prefix) /\ SubSeq(s, 1, Len(prefix)) = prefix

\* os.getcwd()
getcwd == "/cwd"

\* lines 142-143: the command line TestCase.run spawns
Command(t, j) ==
    (IF j THEN "fakechroot chroot " \o getcwd \o " " ELSE "") \o t.command

----------------------------------------------------------------------------
(* The child process. *)

ChildExit ==
    /\ proc = "running"
    /\ \E s \in OptExits :
        /\ proc' = "exited"
        /\ child_status' = s
    /\ UNCHANGED <<suite_vars, run_vars, case_vars, written, attempted>>
    /\ UNCHANGED <<call_vars, hist_vars>>

----------------------------------------------------------------------------
(* TestCase.run and TestCase.run_script. *)

AtAction == pct = "loop" /\ i <= Len(test.script)
action == test.script[i]

\* an earlier EXPECT of the end of the stream has read all the child printed
StreamRead ==
    \E k \in 1..Len(attempted) :
        attempted[k].outcome = "matched" /\ test.script[k].data = pexpect_EOF

\* run, lines 140-146, and run_script, lines 160-162
Spawn ==
    /\ pct = "run"
    /\ proc' = "running"
    /\ child_status' = None
    /\ written' = << >>
    /\ attempted' = << >>
    /\ errors' = << >>
    /\ i' = 1
    /\ pct' = "loop"
    /\ command' = Command(test, jailed)
    /\ UNCHANGED <<suite_vars, run_vars, test, exit_status, case_report>>
    /\ UNCHANGED <<jailed, hist_vars>>

\* lines 164-173: the pattern is found.  A literal may have been printed by a
\* child that runs or by one that has exited since, unless the stream was
\* read to its end already; the end of the stream is found once the child
\* has exited.
ExpectMatch ==
    /\ AtAction
    /\ action.type_ = ActionType_EXPECT
    /\ action.data = pexpect_EOF => proc = "exited"
    /\ action.data # pexpect_EOF => ~StreamRead
    /\ attempted' = Append(attempted, [index |-> i, outcome |-> "matched"])
    /\ i' = i + 1
    /\ UNCHANGED <<suite_vars, run_vars, pct, test, errors, exit_status,
                   case_report, proc, child_status, written>>
    /\ UNCHANGED <<call_vars, hist_vars>>

\* ExpectEOF with the error not recorded
ExpectEOF_NoError ==
    /\ AtAction
    /\ action.type_ = ActionType_EXPECT
    /\ action.data # pexpect_EOF
    /\ proc = "exited"
    /\ attempted' = Append(attempted, [index |-> i, outcome |-> "eof"])
    /\ proc' = Closed(proc)
    /\ exit_status' = ExitStatus(proc, child_status)
    /\ pct' = "ret"
    /\ UNCHANGED <<suite_vars, run_vars, test, i, errors, case_report,
                   child_status, written>>
    /\ UNCHANGED <<call_vars, hist_vars>>

\* ExpectEOF without the break: the loop goes on to the next action
ExpectEOF_NoBreak ==
    /\ AtAction
    /\ action.type_ = ActionType_EXPECT
    /\ action.data # pexpect_EOF
    /\ proc = "exited"
    /\ attempted' = Append(attempted, [index |-> i, outcome |-> "eof"])
    /\ proc' = Closed(proc)
    /\ exit_status' = ExitStatus(proc, child_status)
    /\ errors' = Append(errors, "Expected output not received.")
    /\ i' = i + 1
    /\ UNCHANGED <<suite_vars, run_vars, pct, test, case_report, child_status,
                   written>>
    /\ UNCHANGED <<call_vars, hist_vars>>

\* lines 174-180: the stream ends before the literal is found
ExpectEOF ==
    /\ AtAction
    /\ action.type_ = ActionType_EXPECT
    /\ action.data # pexpect_EOF
    /\ proc = "exited"
    /\ attempted' = Append(attempted, [index |-> i, outcome |-> "eof"])
    /\ proc' = Closed(proc)
    /\ exit_status' = ExitStatus(proc, child_status)
    /\ errors' = Append(errors, "Expected output not received.")
    /\ pct' = "ret"
    /\ UNCHANGED <<suite_vars, run_vars, test, i, case_report, child_status, written>>
    /\ UNCHANGED <<call_vars, hist_vars>>

\* line 171 raising pexpect.TIMEOUT: the bound of the wait passes with the
\* child running and the pattern not found
ExpectTimeoutRaised ==
    /\ AtAction
    /\ action.type_ = ActionType_EXPECT
    /\ ExpectTimeout(action) # None
    /\ proc = "running"
    /\ attempted' = Append(attempted, [index |-> i, outcome |-> "timeout"])
    /\ pct' = "except_timeout"
    /\ UNCHANGED <<suite_vars, run_vars, test, i, errors, exit_status,
                   case_report, proc, child_status, written>>
    /\ UNCHANGED <<call_vars, hist_vars>>

\* ExceptTimeout with the close left out: the process is left as it is and
\* its exit status is not collected
ExceptTimeout_NoClose ==
    /\ pct = "except_timeout"
    /\ exit_status' = None
    /\ errors' = Append(errors, "Timeout exceeded.")
    /\ pct' = "ret"
    /\ UNCHANGED <<suite_vars, run_vars, test, i, case_report, proc,
                   child_status, written, attempted>>
    /\ UNCHANGED <<call_vars, hist_vars>>

\* lines 181-187: the handler of pexpect.TIMEOUT
ExceptTimeout ==
    /\ pct = "except_timeout"
    /\ proc' = Closed(proc)
    /\ exit_status' = ExitStatus(proc, child_status)
    /\ errors' = Append(errors, "Timeout exceeded.")
    /\ pct' = "ret"
    /\ UNCHANGED <<suite_vars, run_vars, test, i, case_report, child_status,
                   written, attempted>>
    /\ UNCHANGED <<call_vars, hist_vars>>

\* lines 188-190: an action that is no EXPECT.  The line is sent when the
\* Action object equals ActionType.SEND.
NotExpect ==
    /\ AtAction
    /\ action.type_ # ActionType_EXPECT
    /\ written' = IF action = ActionType_SEND THEN sendline(written, action.data)
                  ELSE written
    /\ attempted' = Append(attempted, [index |-> i, outcome |-> "passed"])
    /\ i' = i + 1
    /\ UNCHANGED <<suite_vars, run_vars, pct, test, errors, exit_status,
                   case_report, proc, child_status>>
    /\ UNCHANGED <<call_vars, hist_vars>>

\* lines 191-193: the loop ended without a break
LoopElse ==
    /\ pct = "loop"
    /\ i > Len(test.script)
    /\ proc' = Closed(proc)
    /\ exit_status' = ExitStatus(proc, child_status)
    /\ pct' = "ret"
    /\ UNCHANGED <<suite_vars, run_vars, test, i, errors, case_report,
                   child_status, written, attempted>>
    /\ UNCHANGED <<call_vars, hist_vars>>

\* IncorrectExitStatus without the test that an exit code is expected
IncorrectExitStatus_Unset(returns, status) == status # returns

\* line 149
IncorrectExitStatus(returns, status) == returns # None /\ status # returns

\* lines 146-152
RunReturn ==
    /\ pct = "ret"
    /\ case_report' =
        [errors |-> errors \o
            (IF IncorrectExitStatus(test.returns, exit_status)
             THEN <<"Incorrect exit status.">> ELSE << >>)]
    /\ pct' = "returned"
    /\ UNCHANGED <<suite_vars, run_vars, test, i, errors, exit_status, proc_vars>>
    /\ UNCHANGED <<call_vars, hist_vars>>

----------------------------------------------------------------------------
(* TestCase.run on a case standing alone. *)

InitCase ==
    /\ suite = << >>
    /\ points = 0
    /\ added = << >>
    /\ pcs = "idle"
    /\ idx = 0
    /\ report = << >>
    /\ earned_points = 0
    /\ ran = << >>
    /\ pct = "run"
    /\ test \in CaseSpace
    /\ i = 0
    /\ errors = << >>
    /\ exit_status = None
    /\ case_report = [errors |-> << >>]
    /\ proc = "none"
    /\ child_status = None
    /\ written = << >>
    /\ attempted = << >>
    /\ SUPPORTS_JAIL \in BOOLEAN
    /\ jailed \in BOOLEAN
    /\ command = ""
    /\ supplied \in {args \in ScriptArgs : Script(args) = test.script}
    /\ finished = << >>

NextCase ==
    \/ Spawn
    \/ ExpectMatch
    \/ ExpectEOF
    \/ ExpectTimeoutRaised
    \/ ExceptTimeout
    \/ NotExpect
    \/ LoopElse
    \/ RunReturn
    \/ ChildExit

SpecCase == InitCase /\ [][NextCase]_vars

----------------------------------------------------------------------------
(* OrderedDict, as Calico and the report of Calico.run use it. *)

HasKey(od, key) == \E k \in 1..Len(od) : od[k].key = key
Keys(od) == [k \in 1..Len(od) |-> od[k].key]
getitem(od, key) == od[CHOOSE k \in 1..Len(od) : od[k].key = key].val

\* od[key] = val: a new key goes to the end, a key already there keeps its
\* place and gets the new value
setitem(od, key, val) ==
    IF HasKey(od, key)
    THEN [k \in 1..Len(od) |->
            IF od[k].key = key THEN [key |-> key, val |-> val] ELSE od[k]]
    ELSE Append(od, [key |-> key, val |-> val])

\* a number stored as a value of the report
PyInt(n) == [int |-> n]

----------------------------------------------------------------------------
(* Calico.add_case and Calico.run. *)

\* the script of the cases of a suite: a SEND, an EXPECT with a timeout of its
\* own, and an EXPECT of the end of the stream with none
SuiteScript ==
    <<Action(ActionType_SEND, Str("x"), None),
      Action(ActionType_EXPECT, Str("a"), Some(1)),
      Action(ActionType_EXPECT, Str("_EOF_"), None)>>

Names == {"case_a", "points"}

SuiteCaseSpace ==
    {add_actions(TestCase(n, "cmd", None, None, p, b), SuiteScript) :
        n \in Names, p \in OptPoints, b \in BOOLEAN}

NoTest == TestCase("", "", None, None, None, FALSE)

\* add_case counting the points of a case only when its name is new
add_case_NewNameOnly(case) ==
    /\ suite' = setitem(suite, case.name, case)
    /\ points' = IF HasKey(suite, case.name) THEN points
                 ELSE points + (IF case.points # None THEN case.points[1] ELSE 0)

\* lines 209-216
add_case(case) ==
    /\ suite' = setitem(suite, case.name, case)
    /\ points' = points + (IF case.points # None THEN case.points[1] ELSE 0)

AddCase ==
    /\ pcs = "idle"
    /\ Len(added) < MaxCases
    /\ \E case \in SuiteCaseSpace :
        /\ add_case(case)
        /\ added' = Append(added, case)
    /\ UNCHANGED <<run_vars, case_vars, proc_vars>>
    /\ UNCHANGED <<call_vars, hist_vars>>

\* RunBegin with the points earned kept from the call before
RunBegin_KeepEarned ==
    /\ pcs \in {"idle", "again"}
    /\ report' = << >>
    /\ earned_points' = earned_points
    /\ idx' = 1
    /\ pcs' = "loop"
    /\ UNCHANGED <<suite_vars, ran, case_vars, proc_vars>>
    /\ UNCHANGED <<call_vars, hist_vars>>

\* lines 225-228
RunBegin ==
    /\ pcs \in {"idle", "again"}
    /\ report' = << >>
    /\ earned_points' = 0
    /\ idx' = 1
    /\ pcs' = "loop"
    /\ UNCHANGED <<suite_vars, ran, case_vars, proc_vars>>
    /\ UNCHANGED <<call_vars, hist_vars>>

\* Jailed without the test of the name
Jailed_AnyName(test_name) == SUPPORTS_JAIL

\* line 236
Jailed(test_name) == SUPPORTS_JAIL /\ startswith(test_name, "case_")

\* lines 230-237: the next case of self.items() is run
CaseBegin ==
    /\ pcs = "loop"
    /\ idx <= Len(suite)
    /\ test' = suite[idx].val
    /\ jailed' = Jailed(suite[idx].key)
    /\ pct' = "run"
    /\ pcs' = "in_case"
    /\ UNCHANGED <<suite_vars, idx, report, earned_points, ran,
                   i, errors, exit_status, case_report, proc_vars>>
    /\ UNCHANGED <<command, hist_vars>>

\* line 238
Passed(r) == Len(r.errors) = 0

\* AwardedPoints whatever the outcome
AwardedPoints_Always(t, passed) == t.points[1]

\* AwardedPoints with the two outcomes exchanged
AwardedPoints_Inverted(t, passed) == IF passed THEN 0 ELSE t.points[1]

\* line 244
AwardedPoints(t, passed) == IF passed THEN t.points[1] ELSE 0

\* Blocked with the blocker flag not read
Blocked_AnyFailure(t, passed) == ~passed

\* line 250
Blocked(t, passed) == t.blocker /\ ~passed

\* lines 237-251: test.run has returned
CaseEnd ==
    /\ pcs = "in_case"
    /\ pct = "returned"
    /\ LET test_name == suite[idx].key
           passed == Passed(case_report)
           scored == test.points # None
           entry == IF scored
                    THEN [errors |-> case_report.errors,
                          points |-> AwardedPoints(test, passed)]
                    ELSE case_report
       IN  /\ report' = setitem(report, test_name, entry)
           /\ earned_points' = IF scored THEN earned_points + entry.points
                               ELSE earned_points
           /\ ran' = Append(ran, [test |-> test, report |-> case_report,
                                  entry |-> entry,
                                  earned |-> earned_points',
                                  attempted |-> attempted,
                                  jailed |-> jailed, command |-> command,
                                  proc |-> proc])
           /\ pcs' = IF Blocked(test, passed) THEN "after_loop" ELSE "loop"
           /\ idx' = idx + 1
    /\ pct' = "idle"
    /\ test' = NoTest
    /\ i' = 0
    /\ errors' = << >>
    /\ exit_status' = None
    /\ case_report' = [errors |-> << >>]
    /\ proc' = "none"
    /\ child_status' = None
    /\ written' = << >>
    /\ attempted' = << >>
    /\ jailed' = FALSE
    /\ command' = ""
    /\ UNCHANGED <<suite_vars, hist_vars>>

LoopDone == pcs = "after_loop" \/ (pcs = "loop" /\ idx > Len(suite))

\* lines 253-254
RunEnd ==
    /\ LoopDone
    /\ report' = setitem(report, "points", PyInt(earned_points))
    /\ pcs' = "returned"
    /\ UNCHANGED <<suite_vars, idx, earned_points, ran, case_vars, proc_vars>>
    /\ UNCHANGED <<call_vars, hist_vars>>

----------------------------------------------------------------------------
(* A suite is built with add_case and then run. *)

Init ==
    /\ suite = << >>
    /\ points = 0
    /\ added = << >>
    /\ pcs = "idle"
    /\ idx = 0
    /\ report = << >>
    /\ earned_points = 0
    /\ ran = << >>
    /\ pct = "idle"
    /\ test = NoTest
    /\ i = 0
    /\ errors = << >>
    /\ exit_status = None
    /\ case_report = [errors |-> << >>]
    /\ proc = "none"
    /\ child_status = None
    /\ written = << >>
    /\ attempted = << >>
    /\ SUPPORTS_JAIL \in BOOLEAN
    /\ jailed = FALSE
    /\ command = ""
    /\ supplied = << >>
    /\ finished = << >>

Next ==
    \/ AddCase
    \/ RunBegin
    \/ CaseBegin
    \/ CaseEnd
    \/ RunEnd
    \/ Spawn
    \/ ExpectMatch
    \/ ExpectEOF
    \/ ExpectTimeoutRaised
    \/ ExceptTimeout
    \/ NotExpect
    \/ LoopElse
    \/ RunReturn
    \/ ChildExit

Spec == Init /\ [][Next]_vars

----------------------------------------------------------------------------
(* A suite is built with more calls of add_case, of cases that differ in     *)
(* their name and their blocker flag only, and is run twice.                *)

NamedCaseSpace ==
    {add_actions(TestCase(n, "cmd", None, None, Some(1), b), SuiteScript) :
        n \in Names, b \in BOOLEAN}

\* lines 209-216
AddNamedCase ==
    /\ pcs = "idle"
    /\ Len(added) < MaxAdds
    /\ \E case \in NamedCaseSpace :
        /\ add_case(case)
        /\ added' = Append(added, case)
    /\ UNCHANGED <<run_vars, case_vars, proc_vars>>
    /\ UNCHANGED <<call_vars, hist_vars>>

\* lines 218-224: the caller keeps the report and calls run on the same suite
\* once more
RunAgain ==
    /\ pcs = "returned"
    /\ finished = << >>
    /\ finished' = <<[suite |-> suite, points |-> points,
                     report |-> report, ran |-> ran]>>
    /\ ran' = << >>
    /\ pcs' = "again"
    /\ UNCHANGED <<suite_vars, idx, report, earned_points, case_vars, proc_vars>>
    /\ UNCHANGED <<call_vars, SUPPORTS_JAIL, supplied>>

NextRerun ==
    \/ AddNamedCase
    \/ RunBegin
    \/ CaseBegin
    \/ CaseEnd
    \/ RunEnd
    \/ RunAgain
    \/ Spawn
    \/ ExpectMatch
    \/ ExpectEOF
    \/ ExpectTimeoutRaised
    \/ ExceptTimeout
    \/ NotExpect
    \/ LoopElse
    \/ RunReturn
    \/ ChildExit

SpecRerun == Init /\ [][NextRerun]_vars

\* What the interpreter and pexpect guarantee to happen: every statement of
\* Calico.run and TestCase.run that waits for nothing, and the end of a wait
\* that has a bound or whose stream has ended.  A wait without a bound on a
\* child that runs ends only if the child prints or exits, which nothing
\* guarantees.
WaitEnds ==
    /\ AtAction
    /\ ExpectTimeout(action) # None \/ proc = "exited"
    /\ (ExpectMatch \/ ExpectEOF \/ ExpectTimeoutRaised)

Progress ==
    \/ CaseBegin
    \/ CaseEnd
    \/ RunEnd
    \/ Spawn
    \/ WaitEnds
    \/ ExceptTimeout
    \/ NotExpect
    \/ LoopElse
    \/ RunReturn

FairSpec == Spec /\ WF_vars(Progress)

----------------------------------------------------------------------------
(* Properties of TestCase.run and TestCase.run_script (SpecCase). *)

Terminated == proc \in {"exited", "killed"}
Failing == {"eof", "timeout"}
EndedIn(o) == \E k \in 1..Len(attempted) : attempted[k].outcome = o
Completed ==
    /\ Len(attempted) = Len(test.script)
    /\ \A k \in 1..Len(attempted) : attempted[k].outcome \notin Failing
\* the exit status the child left behind: none when the close killed it
LeftStatus == IF proc = "killed" THEN None ELSE child_status
ExitStatusErrors(returns, status) ==
    IF returns # None /\ status # returns THEN <<"Incorrect exit status.">> ELSE << >>

RECURSIVE SendLines(_, _)
\* the lines of the SEND actions among the entries of a log of attempted actions
SendLines(script, log) ==
    IF log = << >> THEN << >>
    ELSE LET a == script[Head(log).index]
         IN  (IF a.type_ = ActionType_SEND THEN <<a.data.str \o "\n">> ELSE << >>)
             \o SendLines(script, Tail(log))

\* C2: every SEND action the replay has reached has had its data and a line
\* terminator written to the process, in script order, before the next action
\* is attempted.
C2_SendWritesLine == written = SendLines(test.script, attempted)

\* C3: the wait of every EXPECT action is bounded by the action's own timeout
\* when it is set and otherwise by the timeout of the case that owns it.
C3_WaitBoundedByEffectiveTimeout ==
    (AtAction /\ action.type_ = ActionType_EXPECT) =>
        ExpectTimeout(action) =
            (IF action.timeout # None THEN action.timeout ELSE test.timeout)

\* C5 as claimed: when an EXPECT reaches end-of-stream before its pattern, the
\* error list of the report is exactly ["Expected output not received."],
\* whatever the expected exit code.
C5_EOFOnlyError ==
    (pct = "returned" /\ EndedIn("eof")) =>
        case_report.errors = <<"Expected output not received.">>

\* C5 as amended: when an EXPECT reaches end-of-stream before its pattern, the
\* error list of the report is "Expected output not received." followed by
\* "Incorrect exit status." exactly when the expected exit code is set and
\* differs from the status the child exited with, and by nothing otherwise.
C5_EOFErrors ==
    (pct = "returned" /\ EndedIn("eof")) =>
        case_report.errors =
            <<"Expected output not received.">>
                \o ExitStatusErrors(test.returns, child_status)

C5_Witness ==
    /\ pct = "returned"
    /\ EndedIn("eof")
    /\ test.returns # None
    /\ test.returns # child_status

\* C6 as claimed: when the wait of an EXPECT exceeds its timeout, the error list
\* of the report is exactly ["Timeout exceeded."], whatever the expected exit
\* code, and the process is terminated when run returns.
C6_TimeoutOnlyError ==
    (pct = "returned" /\ EndedIn("timeout")) =>
        /\ case_report.errors = <<"Timeout exceeded.">>
        /\ Terminated

\* C6 as amended: when the wait of an EXPECT exceeds its timeout, the process is
\* terminated when run returns, and the error list of the report is
\* "Timeout exceeded." followed by "Incorrect exit status." exactly when the
\* expected exit code is set and differs from the exit status of the closed
\* process (none when the close killed it).
C6_TimeoutErrors ==
    (pct = "returned" /\ EndedIn("timeout")) =>
        /\ case_report.errors =
            <<"Timeout exceeded.">> \o ExitStatusErrors(test.returns, LeftStatus)
        /\ Terminated

C6_Witness ==
    /\ pct = "returned"
    /\ EndedIn("timeout")
    /\ test.returns # None
    /\ proc = "killed"

\* C7: the actions attempted are a prefix of the script, in script order, each
\* once; an EXPECT that ended in end-of-stream or timeout is the last action
\* attempted, and once its handler has run the process is terminated.
C7_AttemptedIsPrefix ==
    /\ Len(attempted) <= Len(test.script)
    /\ \A k \in 1..Len(attempted) :
        /\ attempted[k].index = k
        /\ attempted[k].outcome \in Failing =>
            /\ k = Len(attempted)
            /\ pct \in {"ret", "returned"} => Terminated

C7_Witness ==
    /\ pct = "returned"
    /\ Len(attempted) = 1
    /\ Len(test.script) = 2
    /\ attempted[1].outcome \in Failing
    /\ test.script[2].type_ = ActionType_SEND

\* C8: when every action of the script completed without abort, the process is
\* not killed by the close: the exit status obtained is the one the child
\* exits with, and when that is the expected exit code the error list is empty.
C8_NaturalTermination ==
    (pct = "returned" /\ Completed /\ EndedIn("matched")) =>
        /\ proc = "exited"
        /\ exit_status = child_status
        /\ test.returns = child_status => case_report.errors = << >>

\* C9: the error list of the report is the error list of the script replay,
\* followed by "Incorrect exit status." if and only if the expected exit code is
\* set and differs from the exit status the replay returned; with no expected
\* exit code the exit status adds no error.
C9_IncorrectExitStatus ==
    pct = "returned" =>
        /\ case_report.errors = errors \o ExitStatusErrors(test.returns, exit_status)
        /\ test.returns = None => case_report.errors = errors

C9_Witness ==
    /\ pct = "returned"
    /\ errors # << >>
    /\ test.returns # None
    /\ exit_status # None
    /\ exit_status # test.returns

----------------------------------------------------------------------------
(* Properties of Calico.run (Spec, FairSpec). *)

FailedBlocker(r) == r.test.blocker /\ r.report.errors # << >>
RanNames == [k \in 1..Len(ran) |-> ran[k].test.name]

\* C1: the cases run are the cases of the suite in order, up to and including
\* the first blocker that failed: no case is run after a failed blocker, only
\* a failed blocker stops the iteration, and the keys of the returned report
\* are the names of the cases run, in that order (and "points").
C1_StopsAtFailedBlocker ==
    /\ Len(ran) <= Len(suite)
    /\ \A k \in 1..Len(ran) : ran[k].test = suite[k].val
    /\ \A k \in 1..Len(ran) :
        FailedBlocker(ran[k]) => (k = Len(ran) /\ pcs \in {"after_loop", "returned"})
    /\ pcs = "returned" =>
        /\ Len(ran) < Len(suite) => (Len(ran) > 0 /\ FailedBlocker(ran[Len(ran)]))
        /\ Keys(report) = IF \E k \in 1..Len(ran) : RanNames[k] = "points"
                          THEN RanNames ELSE Append(RanNames, "points")

C1_Witness ==
    /\ pcs = "returned"
    /\ Len(suite) = 2
    /\ Len(ran) = 1
    /\ Len(report) = 2

\* C4: once Calico.run is called it returns, whatever the child processes do.
C4_RunTerminates == [](pcs = "loop" => <>(pcs = "returned"))

RECURSIVE SumAwarded(_)
\* the points of the scored cases of a log that ended without errors
SumAwarded(log) ==
    IF log = << >> THEN 0
    ELSE (IF Head(log).test.points # None /\ Head(log).report.errors = << >>
          THEN Head(log).test.points[1] ELSE 0)
         + SumAwarded(Tail(log))

\* C10: the top-level points of the returned report is the sum of the points
\* awarded to the cases that were run: the points of each scored case that
\* passed, nothing for a case that failed, is unscored or was skipped.
C10_PointsIsSumAwarded ==
    pcs = "returned" =>
        /\ HasKey(report, "points")
        /\ getitem(report, "points") = PyInt(SumAwarded(ran))

C10_Witness ==
    /\ pcs = "returned"
    /\ Len(ran) = 2
    /\ ran[1].test.points = Some(2) /\ ran[1].report.errors = << >>
    /\ ran[2].test.points = Some(1) /\ ran[2].report.errors # << >>
    /\ getitem(report, "points") = PyInt(2)

----------------------------------------------------------------------------
(* Properties of the scoring (Spec). *)

\* C11: for every scored case that was run, the points recorded in its report
\* are 0 or the points of the case, and they are the points of the case when
\* its error list is empty and 0 when it is not; for an unscored case the
\* report has no points entry and the points earned stay as they were.
C11_AllOrNothing ==
    \A k \in 1..Len(ran) :
        LET r == ran[k]
            before == IF k = 1 THEN 0 ELSE ran[k - 1].earned
        IN  /\ r.entry.errors = r.report.errors
            /\ IF r.test.points # None
               THEN /\ "points" \in DOMAIN r.entry
                    /\ r.entry.points \in {0, r.test.points[1]}
                    /\ r.entry.points =
                         IF r.report.errors = << >> THEN r.test.points[1] ELSE 0
                    /\ r.earned = before + r.entry.points
               ELSE /\ "points" \notin DOMAIN r.entry
                    /\ r.earned = before

C11_Witness ==
    /\ pcs = "returned"
    /\ Len(ran) = 2
    /\ ran[1].test.points = Some(2) /\ ran[1].report.errors # << >>
    /\ ran[2].test.points = None /\ ran[2].report.errors = << >>

RECURSIVE SumPoints(_)
\* the points of the cases of a sequence, 0 for a case that has none
SumPoints(cases) ==
    IF cases = << >> THEN 0
    ELSE (IF Head(cases).points # None THEN Head(cases).points[1] ELSE 0)
         + SumPoints(Tail(cases))

\* C12: before, during and after a run, the total points of the suite is the
\* sum of the points (0 when unset) of every case ever passed to add_case,
\* those whose name repeated an earlier one included.
C12_TotalIsSumOfAdded == points = SumPoints(added)

C12_Witness ==
    /\ pcs = "returned"
    /\ Len(added) = 2
    /\ added[1].name = added[2].name
    /\ added[1].points = Some(1)
    /\ added[2].points = Some(2)
    /\ Len(ran) = 1
    /\ points = 3

----------------------------------------------------------------------------
(* Properties of the reports (Spec, SpecCase). *)

\* C13: for every case that was run, whatever its name, the returned report
\* maps the name of the case to the report of that case, and it carries the
\* total of the points earned under "points".
C13_ReportHoldsEveryCase ==
    pcs = "returned" =>
        /\ \A k \in 1..Len(ran) :
            /\ HasKey(report, ran[k].test.name)
            /\ getitem(report, ran[k].test.name) = ran[k].entry
        /\ HasKey(report, "points")
        /\ getitem(report, "points") = PyInt(earned_points)

\* C14: the report TestCase.run returns holds the exit status of the process
\* (a number, or none when there is none) beside the error list.
C14_ReportHasExitStatus ==
    pct = "returned" =>
        /\ "errors" \in DOMAIN case_report
        /\ "exit_status" \in DOMAIN case_report
        /\ case_report.exit_status = exit_status

----------------------------------------------------------------------------
(* Properties of the order of the cases and of repeated runs (SpecRerun). *)

RECURSIVE LastWins(_)
\* the cases of a sequence of add_case calls, each at the place of its own
\* call, without those that a later call of the same name replaced
LastWins(cases) ==
    IF cases = << >> THEN << >>
    ELSE (IF \E j \in 2..Len(cases) : cases[j].name = Head(cases).name
          THEN << >> ELSE <<Head(cases)>>)
         \o LastWins(Tail(cases))

\* C15: the cases of the suite are in the order in which they were added, a
\* case whose name repeats an earlier one replacing it and standing at the
\* place of its own insertion, and Calico.run runs them in that order.
C15_RunsInInsertionOrder ==
    /\ [k \in 1..Len(suite) |-> suite[k].val] = LastWins(added)
    /\ \A k \in 1..Len(ran) : ran[k].test = LastWins(added)[k]

\* what the processes of the cases of a run did, as the replay saw it
Behaviour(log) == [k \in 1..Len(log) |-> log[k].attempted]

\* C18: a run leaves the cases of the suite, their order and the total points
\* as they were, and a second run of the suite in which the processes behave
\* as in the first returns a report equal to the first.
C18_RunsAreIndependent ==
    finished # << >> =>
        /\ suite = finished[1].suite
        /\ points = finished[1].points
        /\ (pcs = "returned" /\ Behaviour(ran) = Behaviour(finished[1].ran)) =>
                report = finished[1].report

C18_Witness ==
    /\ finished # << >>
    /\ pcs = "returned"
    /\ Behaviour(ran) = Behaviour(finished[1].ran)
    /\ Len(ran) = 2
    /\ ran[1].report.errors # << >>
    /\ ran[2].report.errors = << >>
    /\ earned_points = 1

----------------------------------------------------------------------------
(* Properties of the construction of an Action (SpecCase). *)

\* C16: every action of the script holds the literal string that was supplied
\* as its data, and none holds the end-of-stream sentinel in its place.
C16_ActionHoldsLiteral ==
    \A k \in 1..Len(supplied) :
        /\ test.script[k].data = Str(supplied[k].data)
        /\ test.script[k].data # pexpect_EOF

----------------------------------------------------------------------------
(* Properties of the processes, the jail and the total points (Spec). *)

\* the number of child processes that run: that of the case in progress and
\* those the cases before it left behind
Alive ==
    Cardinality({k \in 1..Len(ran) : ran[k].proc = "running"})
    + (IF proc = "running" THEN 1 ELSE 0)

C19_JailedByPrefix ==
    \A k \in 1..Len(ran) :
        LET r == ran[k]
        IN  /\ r.jailed <=> (SUPPORTS_JAIL /\ startswith(r.test.name, "case_"))
            /\ r.command = IF r.jailed
                           THEN "fakechroot chroot /cwd " \o r.test.command
                           ELSE r.test.command

C19_Witness ==
    /\ SUPPORTS_JAIL
    /\ Len(ran) = 2
    /\ ran[1].test.name = "case_a"
    /\ ran[1].jailed
    /\ ran[1].command = "fakechroot chroot /cwd cmd"
    /\ ran[2].test.name = "points"
    /\ ~ran[2].jailed
    /\ ran[2].command = "cmd"

AllPassed == \A k \in 1..Len(ran) : ran[k].report.errors = << >>

\* C20: the points earned never exceed the total points of the suite, and a
\* run in which every case that ran passed earns exactly the total points.
C20_TotalIsAttainable ==
    /\ earned_points <= points
    /\ (pcs = "returned" /\ AllPassed) => earned_points = points

====
